---- MODULE Spec2Model ----
(***************************************************************************)
(* Batch editing of a tree-sitter document (ts::Tree::edit / edit_tree).   *)
(*                                                                         *)
(* The document is a ts::Tree: a unique_ptr to the engine's TSTree, the    *)
(* source string and a parser pointer.  Tree::edit takes a batch of Edits, *)
(* sorts it, validates it, splices every edit into a copy of the source,   *)
(* notifies the engine's tree of every splice, reparses and swaps the new  *)
(* tree and source into the document.                                      *)
(*                                                                         *)
(* The engine (tree-sitter's C library) is modelled at its interface: a    *)
(* heap of tree handles, each remembering the text it was parsed from and  *)
(* the edit notifications it received, and a log of the calls made to it.  *)
(* The changed ranges the engine reports are opaque and are not modelled.  *)
(***************************************************************************)
EXTENDS Integers, Sequences, FiniteSets, TLC

\* ------------------------------------------------------------------ bounds
\* Longest batch handed to one Tree::edit call on a freshly parsed document.
MaxBatch == 3
\* Longest batch in the specification of call sequences.
SeqMaxBatch == 2
\* Number of Tree::edit calls in the specification of call sequences.
MaxCalls == 2

\* Point::row, Point::column and Location::byte are std::uint32_t.  A value
\* is held as the integer with the same 32 bits read as two's complement, so
\* that +, - and the conversions between std::uint32_t, int and long of small
\* differences keep their meaning; only the order of two values has to be
\* taken unsigned: a value that wrapped below zero is larger than any other.
UGt(a, b) == IF (a < 0) = (b < 0) THEN a > b ELSE a < 0
ULe(a, b) == ~UGt(a, b)

NullTree == 0

VARIABLES
    source,   \* Tree::source_
    tree,     \* Tree::tree, the handle the document owns (NullTree = nullptr)
    trees,    \* the engine's live trees: handle -> [text, edited]
    calls,    \* number of Tree::edit calls made so far
    edits,    \* the batch of the last call, as the caller submitted it
    sorted,   \* the batch of the last call after std::sort
    outcome,  \* how the last call ended
    result,   \* EditResult::applied_edits of the last call
    engine,   \* the engine calls made by the last call, in order
    nodes,    \* the syntax tree a Cursor walks: [parent, named]
    cursor,   \* Cursor: the node it is on and its last call
    visit,    \* visit_tree in progress: call stack and the nodes fn was called on
    query     \* QueryCursor: pending and retrieved matches, pending captures, last call

vars == <<source, tree, trees, calls, edits, sorted, outcome, result, engine,
          nodes, cursor, visit, query>>

\* ---------------------------------------------------------------- helpers
Min(a, b) == IF a < b THEN a ELSE b

\* std::string::substr(pos, n): n is clipped to the end of the string
substr(s, pos, n) == SubSeq(s, pos + 1, Min(pos + n, Len(s)))

\* std::string::replace(pos, n, str)
replace(s, pos, n, str) ==
    SubSeq(s, 1, pos) \o str \o SubSeq(s, Min(pos + n, Len(s)) + 1, Len(s))

\* std::string::find('\n') != npos
HasNewline(s) == \E i \in 1..Len(s) : s[i] = "\n"

\* The Location of byte offset b in text s, as the engine reports it for the
\* nodes of a tree parsed from s (zero-based row and column).
LocationAt(s, b) ==
    LET nl == {i \in 1..b : s[i] = "\n"}
        last == IF nl = {} THEN 0 ELSE CHOOSE i \in nl : \A j \in nl : j <= i
    IN [point |-> [row |-> Cardinality(nl), column |-> b - last], byte |-> b]

RangeAt(s, b, e) == [start |-> LocationAt(s, b), end |-> LocationAt(s, e)]

\* ------------------------------------------------- Location / Range (cpp)
\* bool operator==(const Point&, const Point&)
PointEq(lhs, rhs) == lhs.row = rhs.row /\ lhs.column = rhs.column

\* bool operator==(const Location&, const Location&)
LocationEq(lhs, rhs) == PointEq(lhs.point, rhs.point) /\ lhs.byte = rhs.byte

\* bool operator>(const Location&, const Location&)
LocationGt(lhs, rhs) == UGt(lhs.byte, rhs.byte)

\* Range::overlaps counting a shared boundary as overlap (>= for >)
overlaps_touching(this, other) ==
    IF LocationGt(this.start, other.start)
    THEN ~LocationGt(this.start, other.end)
    ELSE ~LocationGt(other.start, this.end)

\* bool Range::overlaps(const Range& other) const
overlaps(this, other) ==
    IF LocationGt(this.start, other.start)
    THEN \* other.overlaps(*this): other.start < this.start, no further swap
         LocationGt(other.end, this.start)
    ELSE LocationGt(this.end, other.start)

\* --------------------------------------------------------- validation
ValidationErrors == {"ZeroSizedEdit", "MultilineEdit", "OverlappingEdit"}

\* _forbid_zero_sized_edit throws
_forbid_zero_sized_edit(edit) == LocationEq(edit.range.start, edit.range.end)

\* _forbid_multiline_edit looking at the rows only, not at the replacement
_forbid_multiline_edit_rows_only(edit) ==
    edit.range.start.point.row /= edit.range.end.point.row

\* _forbid_multiline_edit throws
_forbid_multiline_edit(edit) ==
    \/ edit.range.start.point.row /= edit.range.end.point.row
    \/ HasNewline(edit.replacement)

\* the inner loop skipping every edit equal to edits[i], not only edits[i]
OverlapsAnother_skip_equal(es, i) ==
    \E j \in 1..Len(es) : es[j] /= es[i] /\ overlaps(es[i].range, es[j].range)

\* the inner loop of _check_edits for edits[i]: some j /= i overlaps
OverlapsAnother(es, i) ==
    \E j \in 1..Len(es) : j /= i /\ overlaps(es[i].range, es[j].range)

\* the iteration for edits[i] without the call of _forbid_zero_sized_edit
CheckOne_no_zero_check(es, i) ==
    IF _forbid_multiline_edit(es[i]) THEN "MultilineEdit"
    ELSE IF OverlapsAnother(es, i) THEN "OverlappingEdit"
    ELSE "ok"

\* what the iteration for edits[i] throws ("ok": nothing)
CheckOne(es, i) ==
    IF _forbid_zero_sized_edit(es[i]) THEN "ZeroSizedEdit"
    ELSE IF _forbid_multiline_edit(es[i]) THEN "MultilineEdit"
    ELSE IF OverlapsAnother(es, i) THEN "OverlappingEdit"
    ELSE "ok"

\* _check_edits: the exception of the first iteration that throws
_check_edits(es) ==
    LET bad == {i \in 1..Len(es) : CheckOne(es, i) /= "ok"}
    IN IF bad = {} THEN "ok"
       ELSE CheckOne(es, CHOOSE i \in bad : \A j \in bad : i <= j)

\* ------------------------------------------------------------- ordering
\* the comparison turned round: descending in range.start.byte
cmp_descending(edit1, edit2) == ULe(edit2.range.start.byte, edit1.range.start.byte)

\* std::sort(edits.begin(), edits.end(), cmp) with
\*   cmp(edit1, edit2) = edit1.range.start.byte <= edit2.range.start.byte.
\* cmp is no strict weak ordering: the arrangement of edits that start at the
\* same byte is left to the library, so every arrangement that is ascending
\* in range.start.byte is a possible result.
cmp(edit1, edit2) == ULe(edit1.range.start.byte, edit2.range.start.byte)

Perms(n) ==
    {p \in [1..n -> 1..n] : \A i, j \in 1..n : i /= j => p[i] /= p[j]}

\* std::sort left out: the batch is processed in the order of submission
sort_as_submitted(es) == {es}

\* the arrangements std::sort can leave the batch in
sort(es) ==
    {[i \in 1..Len(es) |-> es[p[i]]] : p \in
        {q \in Perms(Len(es)) :
            \A i \in 1..(Len(es) - 1) : cmp(es[q[i]], es[q[i + 1]])}}

\* ------------------------------------------------------------ adjustment
\* Adjustment adjustment{};
InitAdjustment ==
    [last_point |-> [row |-> 0, column |-> 0],
     last_width_change |-> 0,
     cumulative_byte_change |-> 0]

\* _adjust_edit shifting the columns by the last width change whatever the
\* row of the last edit
_adjust_edit_any_row(edit, adjustment) ==
    LET shift == adjustment.last_width_change
        adj(loc) ==
            [point |-> [row |-> loc.point.row,
                        column |-> loc.point.column + shift],
             byte |-> loc.byte + adjustment.cumulative_byte_change]
    IN [range |-> [start |-> adj(edit.range.start), end |-> adj(edit.range.end)],
        replacement |-> edit.replacement]

\* _adjust_edit(edit, adjustment): the edit with its range adjusted
_adjust_edit(edit, adjustment) ==
    LET shift == IF /\ adjustment.last_width_change /= 0
                    /\ adjustment.last_point.row = edit.range.start.point.row
                 THEN adjustment.last_width_change
                 ELSE 0
        adj(loc) ==
            [point |-> [row |-> loc.point.row,
                        column |-> loc.point.column + shift],
             byte |-> loc.byte + adjustment.cumulative_byte_change]
    IN [range |-> [start |-> adj(edit.range.start), end |-> adj(edit.range.end)],
        replacement |-> edit.replacement]

\* _update_adjustment(adjustment, applied_edit, last_point)
_update_adjustment(adjustment, applied_edit, last_point) ==
    LET before_width == applied_edit.before.end.point.column
                        - applied_edit.before.start.point.column
        after_width == applied_edit.after.end.point.column
                       - applied_edit.after.start.point.column
        byte_change == applied_edit.after.end.byte - applied_edit.before.end.byte
    IN [last_point |-> last_point,
        last_width_change |-> after_width - before_width,
        cumulative_byte_change |-> adjustment.cumulative_byte_change + byte_change]

\* --------------------------------------------------------------- patching
\* _apply_edit leaving the end of the `after` range where the end of the
\* `before` range is
_apply_edit_end_unmoved(edit, src) ==
    LET old_size == edit.range.end.byte - edit.range.start.byte
        old_source == substr(src, edit.range.start.byte, old_size)
        end_byte_diff == 0
        before == edit.range
        column == before.end.point.column + end_byte_diff
        byte == before.end.byte + end_byte_diff
        after == [start |-> edit.range.start,
                  end |-> [point |-> [row |-> edit.range.end.point.row,
                                      column |-> column],
                           byte |-> byte]]
    IN IF UGt(edit.range.start.byte, Len(src))
       THEN [threw |-> TRUE]
       ELSE [threw |-> FALSE,
             applied |-> [before |-> before, after |-> after,
                          old_source |-> old_source,
                          replacement |-> edit.replacement],
             source |-> replace(src, edit.range.start.byte, old_size,
                                edit.replacement),
             input_edit |-> [start_byte |-> before.start.byte,
                             old_end_byte |-> before.end.byte,
                             new_end_byte |-> after.end.byte,
                             start_point |-> before.start.point,
                             old_end_point |-> before.end.point,
                             new_end_point |-> after.end.point]]

\* _apply_edit(edit, tree, source): the AppliedEdit, the spliced source and
\* the TSInputEdit handed to ts_tree_edit.  std::string::substr throws
\* std::out_of_range when the start byte lies beyond the end of the source.
_apply_edit(edit, src) ==
    LET old_size == edit.range.end.byte - edit.range.start.byte
        old_source == substr(src, edit.range.start.byte, old_size)
        end_byte_diff == Len(edit.replacement) - old_size
        before == edit.range
        column == before.end.point.column + end_byte_diff
        byte == before.end.byte + end_byte_diff
        after == [start |-> edit.range.start,
                  end |-> [point |-> [row |-> edit.range.end.point.row,
                                      column |-> column],
                           byte |-> byte]]
    IN IF UGt(edit.range.start.byte, Len(src))
       THEN [threw |-> TRUE]
       ELSE [threw |-> FALSE,
             applied |-> [before |-> before, after |-> after,
                          old_source |-> old_source,
                          replacement |-> edit.replacement],
             source |-> replace(src, edit.range.start.byte, old_size,
                                edit.replacement),
             input_edit |-> [start_byte |-> before.start.byte,
                             old_end_byte |-> before.end.byte,
                             new_end_byte |-> after.end.byte,
                             start_point |-> before.start.point,
                             old_end_point |-> before.end.point,
                             new_end_point |-> after.end.point]]

\* the loop of _apply_all_edits without line 182: the record keeps the
\* adjusted range as its `before`
RECURSIVE ApplyFrom_keep_adjusted(_, _, _)
ApplyFrom_keep_adjusted(es, k, st) ==
    IF k > Len(es) THEN st
    ELSE LET edit == _adjust_edit(es[k], st.adjustment)
             r == _apply_edit(edit, st.new_source)
             adjustment == _update_adjustment(st.adjustment, r.applied,
                                              edit.range.end.point)
         IN IF r.threw
            THEN [st EXCEPT !.threw = TRUE]
            ELSE ApplyFrom_keep_adjusted(es, k + 1,
                    [new_source |-> r.source,
                     adjustment |-> adjustment,
                     applied_edits |-> Append(st.applied_edits, r.applied),
                     inputs |-> Append(st.inputs, r.input_edit),
                     adjustments |-> Append(st.adjustments, adjustment),
                     threw |-> FALSE])

\* the loop of _apply_all_edits from edits[k] on; st carries new_source, the
\* adjustment, applied_edits and the notifications sent to the engine so far,
\* the adjustment after every iteration, and whether _apply_edit threw
RECURSIVE ApplyFrom(_, _, _)
ApplyFrom(es, k, st) ==
    IF k > Len(es) THEN st
    ELSE LET range_before_adjustments == es[k].range
             edit == _adjust_edit(es[k], st.adjustment)
             r == _apply_edit(edit, st.new_source)
             applied_edit == [r.applied EXCEPT !.before = range_before_adjustments]
             adjustment == _update_adjustment(st.adjustment, applied_edit,
                                              edit.range.end.point)
         IN IF r.threw
            THEN [st EXCEPT !.threw = TRUE]
            ELSE ApplyFrom(es, k + 1,
                    [new_source |-> r.source,
                     adjustment |-> adjustment,
                     applied_edits |-> Append(st.applied_edits, applied_edit),
                     inputs |-> Append(st.inputs, r.input_edit),
                     adjustments |-> Append(st.adjustments, adjustment),
                     threw |-> FALSE])

\* _apply_all_edits(edits, new_source, old_tree)
_apply_all_edits(es, new_source) ==
    ApplyFrom(es, 1, [new_source |-> new_source,
                      adjustment |-> InitAdjustment,
                      applied_edits |-> <<>>,
                      inputs |-> <<>>,
                      adjustments |-> <<>>,
                      threw |-> FALSE])

\* ------------------------------------------------------------- edit_tree
\* edit_tree splicing into the document's own source instead of a copy: what
\* _apply_all_edits did before an exception stays in the document
edit_tree_in_place(es, src) ==
    LET chk == _check_edits(es)
        first == _apply_edit(es[1], src)
        a == _apply_all_edits(es, src)
    IN IF chk /= "ok"
       THEN [outcome |-> chk,
             doc_source |-> IF CheckOne(es, 1) = "ok" THEN first.source ELSE src,
             applied_edits |-> <<>>, inputs |-> <<>>, adjustments |-> <<>>]
       ELSE IF a.threw
       THEN [outcome |-> "out_of_range", doc_source |-> a.new_source,
             applied_edits |-> <<>>, inputs |-> a.inputs,
             adjustments |-> a.adjustments]
       ELSE [outcome |-> "ok", doc_source |-> a.new_source,
             applied_edits |-> a.applied_edits, inputs |-> a.inputs,
             adjustments |-> a.adjustments]

\* edit_tree(edits, tree, old_tree) from the sorted batch on: how the call
\* ends, the source the document holds afterwards (new_source is a copy; it
\* reaches the document only through the final swap), the applied edits it
\* returns, the notifications it sent and the text it handed to the parser.
edit_tree(es, src) ==
    LET chk == _check_edits(es)
        a == _apply_all_edits(es, src)
    IN IF chk /= "ok"
       THEN [outcome |-> chk, doc_source |-> src, applied_edits |-> <<>>,
             inputs |-> <<>>, adjustments |-> <<>>]
       ELSE IF a.threw
       THEN [outcome |-> "out_of_range", doc_source |-> src,
             applied_edits |-> <<>>, inputs |-> a.inputs,
             adjustments |-> a.adjustments]
       ELSE [outcome |-> "ok", doc_source |-> a.new_source,
             applied_edits |-> a.applied_edits, inputs |-> a.inputs,
             adjustments |-> a.adjustments]

\* ----------------------------------------------------------------- inputs
\* The documents the sessions start from.
InitSources == { <<"a", "b", "c", "\n", "d">>, <<"a", "\n", "b", "\n", "c">> }

\* <<start byte, end byte, replacement>> of the edits a caller submits; the
\* points of an edit are those of its bytes in the current source.
EditShapes ==
    { <<0, 1, <<"y", "y">>>>, <<0, 1, <<>>>>, <<1, 2, <<>>>>,
      <<1, 2, <<"y", "y">>>>, <<2, 3, <<"z">>>>, <<4, 5, <<"y", "y">>>>,
      <<0, 2, <<"y">>>>, <<1, 1, <<"y">>>>, <<2, 4, <<"y">>>>,
      <<2, 3, <<"\n">>>> }

SeqShapes ==
    { <<0, 1, <<"y", "y">>>>, <<1, 2, <<>>>>, <<0, 2, <<"y">>>>,
      <<1, 1, <<"y">>>>, <<2, 4, <<"y">>>> }

EditsOf(src, shapes) ==
    {[range |-> RangeAt(src, sh[1], sh[2]), replacement |-> sh[3]] :
        sh \in {x \in shapes : x[2] <= Len(src)}}

Batches(src, shapes, max) ==
    UNION {[1..n -> EditsOf(src, shapes)] : n \in 0..max}

\* ------------------------------------------------------------ the engine
\* the handle ts_parser_parse_string returns in this call
NewHandle == calls + 2

EngineEdits(h, inputs) ==
    [i \in 1..Len(inputs) |-> [op |-> "ts_tree_edit", tree |-> h, input |-> inputs[i]]]

EngineParse(h, text, new) ==
    << [op |-> "ts_parser_parse_string", tree |-> h, text |-> text, new |-> new],
       [op |-> "ts_tree_get_changed_ranges", tree |-> h, new |-> new] >>

EngineDelete(h) ==
    IF h = NullTree THEN <<>> ELSE << [op |-> "ts_tree_delete", tree |-> h] >>

\* swap(self, other) taking over the tree only
swap_tree_only(self, other) == [tree |-> other.tree, source_ |-> self.source_]

\* void swap(Tree& self, Tree& other): the fields of self afterwards
swap(self, other) == [tree |-> other.tree, source_ |-> other.source_]

\* ------------------------------------------------------------ Tree::edit
\* What a call that needs the old tree does when the document holds none
\* (ts_tree_edit and ts_tree_get_changed_ranges dereference a null pointer):
\* undefined behaviour, the process dies or carries on.
Undefined(r) ==
    IF tree = NullTree /\ r.outcome \notin ValidationErrors
    THEN {"crash", "proceed"}
    ELSE {"defined"}

\* EditResult Tree::edit(std::vector<Edit> edits)
TreeEdit(batch) ==
    /\ outcome /= "crash"
    /\ UNCHANGED <<nodes, cursor, visit, query>>
    /\ \E es \in sort(batch) :
         LET old_tree == tree    \* std::move(this->tree) leaves nullptr behind
             r == edit_tree(es, source)
         IN \E ub \in Undefined(r) :
              /\ calls' = calls + 1
              /\ edits' = batch
              /\ sorted' = es
              /\ IF ub = "crash"
                 THEN /\ outcome' = "crash"
                      /\ result' = <<>>
                      /\ engine' = <<>>
                      /\ UNCHANGED <<source, tree, trees>>
                 ELSE /\ outcome' = r.outcome
                      /\ result' = r.applied_edits
                      /\ IF r.outcome = "ok"
                         THEN \* parse_string, _get_changed_ranges, swap; then
                              \* old_tree is released at the end of Tree::edit
                              /\ tree' = swap([tree |-> NullTree, source_ |-> source],
                                              [tree |-> NewHandle,
                                               source_ |-> r.doc_source]).tree
                              /\ source' = swap([tree |-> NullTree, source_ |-> source],
                                                [tree |-> NewHandle,
                                                 source_ |-> r.doc_source]).source_
                              /\ trees' = [h \in {NewHandle} |->
                                             [text |-> r.doc_source, edited |-> <<>>]]
                              /\ engine' = EngineEdits(old_tree, r.inputs)
                                           \o EngineParse(old_tree, r.doc_source, NewHandle)
                                           \o EngineDelete(old_tree)
                         ELSE \* the exception unwinds Tree::edit: old_tree is
                              \* released and the document keeps nullptr
                              /\ tree' = NullTree
                              /\ source' = r.doc_source
                              /\ trees' = [h \in {} |-> 0]
                              /\ engine' = EngineEdits(old_tree, r.inputs)
                                           \o EngineDelete(old_tree)

\* ------------------------------------------------- no cursor, no query
\* The values of nodes, cursor, visit and query while no Cursor and no
\* QueryCursor exists.
NoNodes == [parent |-> <<>>, named |-> {}]
NoCursor == [at |-> 0, op |-> "none", from |-> 0, ret |-> FALSE]
NoVisit == [stack |-> <<>>, visited |-> <<>>, status |-> "idle", ndebug |-> FALSE]
NoQuery == [pending |-> <<>>, captures |-> <<>>, op |-> "none", ret |-> <<>>,
            taken |-> <<>>, all |-> <<>>]

\* ------------------------------------------------------- specifications
Init ==
    /\ source \in InitSources
    /\ tree = 1
    /\ trees = [h \in {1} |-> [text |-> source, edited |-> <<>>]]
    /\ calls = 0
    /\ edits = <<>>
    /\ sorted = <<>>
    /\ outcome = "none"
    /\ result = <<>>
    /\ engine = <<>>
    /\ nodes = NoNodes
    /\ cursor = NoCursor
    /\ visit = NoVisit
    /\ query = NoQuery

\* One call on a freshly parsed document, any batch of up to MaxBatch edits.
Next ==
    /\ calls = 0
    /\ \E batch \in Batches(source, EditShapes, MaxBatch) : TreeEdit(batch)

Spec == Init /\ [][Next]_vars

\* Sequences of up to MaxCalls calls on one document.
NextSeq ==
    /\ calls < MaxCalls
    /\ \E batch \in Batches(source, SeqShapes, SeqMaxBatch) : TreeEdit(batch)

SpecSeq == Init /\ [][NextSeq]_vars

\* ================================================================ Cursor
\* Largest number of nodes of a syntax tree.
MaxNodes == 4

\* The syntax trees: node 1 is the root, parent[x] is the parent of node x
\* (0 for the root), the children of a node are ordered by their number, and
\* named is the set of nodes for which Node::is_named holds.
TreeShapes ==
    UNION {{p \in [1..n -> 0..(n - 1)] :
               /\ p[1] = 0
               /\ \A x \in 2..n : p[x] \in 1..(x - 1)} : n \in 1..MaxNodes}

Trees ==
    UNION {{[parent |-> p, named |-> nm] : nm \in SUBSET (1..Len(p))} :
              p \in TreeShapes}

NodesOf(t) == 1..Len(t.parent)
Children(x) == {c \in NodesOf(nodes) : nodes.parent[c] = x}
LaterSiblings(x) ==
    IF x = 1 THEN {} ELSE {c \in Children(nodes.parent[x]) : c > x}
SetMin(S) == CHOOSE x \in S : \A y \in S : x <= y

\* Node::is_named
is_named(x) == x \in nodes.named

\* Cursor::goto_parent / ts_tree_cursor_goto_parent: false only at the root
goto_parent(at) ==
    IF at = 1 THEN [ret |-> FALSE, at |-> at]
    ELSE [ret |-> TRUE, at |-> nodes.parent[at]]

\* Cursor::goto_first_child / ts_tree_cursor_goto_first_child
goto_first_child(at) ==
    IF Children(at) = {} THEN [ret |-> FALSE, at |-> at]
    ELSE [ret |-> TRUE, at |-> SetMin(Children(at))]

\* Cursor::goto_next_sibling / ts_tree_cursor_goto_next_sibling
goto_next_sibling(at) ==
    IF LaterSiblings(at) = {} THEN [ret |-> FALSE, at |-> at]
    ELSE [ret |-> TRUE, at |-> SetMin(LaterSiblings(at))]

\* the loop of Cursor::goto_first_named_child:
\*   while (!current_node().is_named()) if (!goto_next_sibling()) return false;
RECURSIVE SkipUnnamed(_)
SkipUnnamed(at) ==
    IF is_named(at) THEN [ret |-> TRUE, at |-> at]
    ELSE LET r == goto_next_sibling(at)
         IN IF ~r.ret THEN [ret |-> FALSE, at |-> r.at] ELSE SkipUnnamed(r.at)

\* Cursor::goto_first_named_child
goto_first_named_child(at) ==
    LET r == goto_first_child(at)
    IN IF ~r.ret THEN [ret |-> FALSE, at |-> r.at] ELSE SkipUnnamed(r.at)

\* Cursor::goto_next_named_sibling with while in place of do-while: the node
\* the cursor is on is tested before the first move
goto_next_named_sibling_test_first(at) == SkipUnnamed(at)

\* Cursor::goto_next_named_sibling:
\*   do { if (!goto_next_sibling()) return false; } while (!is_named());
RECURSIVE goto_next_named_sibling(_)
goto_next_named_sibling(at) ==
    LET r == goto_next_sibling(at)
    IN IF ~r.ret THEN [ret |-> FALSE, at |-> r.at]
       ELSE IF is_named(r.at) THEN [ret |-> TRUE, at |-> r.at]
       ELSE goto_next_named_sibling(r.at)

\* the edit variables while the document is only read
DocumentIdle ==
    /\ source = <<"a", "b", "c", "\n", "d">>
    /\ tree = 1
    /\ trees = [h \in {1} |-> [text |-> source, edited |-> <<>>]]
    /\ calls = 0
    /\ edits = <<>>
    /\ sorted = <<>>
    /\ outcome = "none"
    /\ result = <<>>
    /\ engine = <<>>

editVars == <<source, tree, trees, calls, edits, sorted, outcome, result, engine>>

\* a call of a Cursor method: where it started, what it returned, where it
\* left the cursor
CursorCall(op, r) ==
    /\ cursor' = [at |-> r.at, op |-> op, from |-> cursor.at, ret |-> r.ret]
    /\ UNCHANGED <<nodes, visit, query, editVars>>

GotoParent == CursorCall("goto_parent", goto_parent(cursor.at))
GotoFirstChild == CursorCall("goto_first_child", goto_first_child(cursor.at))
GotoNextSibling == CursorCall("goto_next_sibling", goto_next_sibling(cursor.at))
GotoFirstNamedChild ==
    CursorCall("goto_first_named_child", goto_first_named_child(cursor.at))
GotoNextNamedSibling ==
    CursorCall("goto_next_named_sibling", goto_next_named_sibling(cursor.at))

\* Cursor cursor(tree): on the root of some syntax tree
InitCursor ==
    /\ DocumentIdle
    /\ nodes \in Trees
    /\ cursor = [at |-> 1, op |-> "Cursor", from |-> 1, ret |-> TRUE]
    /\ visit = NoVisit
    /\ query = NoQuery

NextCursor ==
    \/ GotoParent
    \/ GotoFirstChild
    \/ GotoNextSibling
    \/ GotoFirstNamedChild
    \/ GotoNextNamedSibling

SpecCursor == InitCursor /\ [][NextCursor]_vars

\* ============================================================ visit_tree
\* visit_tree, visit_children and visit_siblings as the steps of their call
\* stack.  A frame of visit_children is at "enter" (before goto_first_child)
\* or at "return" (visit_siblings has returned) and remembers the node the
\* cursor was on when the call started; a frame of visit_siblings is at
\* "loop" (the test of its while) or at "assert".  visit.ndebug tells whether
\* the build defines NDEBUG: assert(cursor.goto_parent()) then expands to
\* nothing and goto_parent is not called.
Frame(fn, pc, entry) == [fn |-> fn, pc |-> pc, entry |-> entry]
Top == visit.stack[Len(visit.stack)]
Pop(stack) == SubSeq(stack, 1, Len(stack) - 1)
SetTop(stack, pc) == [stack EXCEPT ![Len(stack)].pc = pc]
Running == visit.status = "running" /\ visit.stack /= <<>>

\* visit_tree(tree, fn): Cursor cursor(tree); fn(cursor.current_node());
\* visit_children(cursor, fn);
VisitTree ==
    /\ visit.status = "idle"
    /\ cursor' = [at |-> 1, op |-> "Cursor", from |-> 1, ret |-> TRUE]
    /\ visit' = [visit EXCEPT !.status = "running",
                              !.visited = <<1>>,
                              !.stack = <<Frame("visit_children", "enter", 1)>>]
    /\ UNCHANGED <<nodes, query, editVars>>

\* visit_children: if (cursor.goto_first_child()) fn(cursor.current_node());
\* then the call of visit_siblings
VisitChildrenEnter ==
    /\ Running
    /\ Top.fn = "visit_children" /\ Top.pc = "enter"
    /\ LET r == goto_first_child(cursor.at)
       IN /\ cursor' = [at |-> r.at, op |-> "goto_first_child",
                        from |-> cursor.at, ret |-> r.ret]
          /\ visit' = [visit EXCEPT
                 !.visited = IF r.ret THEN Append(@, r.at) ELSE @,
                 !.stack = Append(SetTop(@, "return"),
                                  Frame("visit_siblings", "loop", r.at))]
    /\ UNCHANGED <<nodes, query, editVars>>

\* visit_siblings: one test of while (cursor.goto_next_sibling()) and, when
\* it holds, fn(cursor.current_node()) and the call of visit_children
VisitSiblingsLoop ==
    /\ Running
    /\ Top.fn = "visit_siblings" /\ Top.pc = "loop"
    /\ LET r == goto_next_sibling(cursor.at)
       IN /\ cursor' = [at |-> r.at, op |-> "goto_next_sibling",
                        from |-> cursor.at, ret |-> r.ret]
          /\ visit' = [visit EXCEPT
                 !.visited = IF r.ret THEN Append(@, r.at) ELSE @,
                 !.stack = IF r.ret
                           THEN Append(@, Frame("visit_children", "enter", r.at))
                           ELSE SetTop(@, "assert")]
    /\ UNCHANGED <<nodes, query, editVars>>

\* visit_siblings: assert(cursor.goto_parent()); and the return
VisitSiblingsAssert ==
    /\ Running
    /\ Top.fn = "visit_siblings" /\ Top.pc = "assert"
    /\ LET r == goto_parent(cursor.at)
       IN IF visit.ndebug
          THEN /\ visit' = [visit EXCEPT !.stack = Pop(@)]
               /\ UNCHANGED cursor
          ELSE /\ cursor' = [at |-> r.at, op |-> "goto_parent",
                             from |-> cursor.at, ret |-> r.ret]
               /\ visit' = IF r.ret
                           THEN [visit EXCEPT !.stack = Pop(@)]
                           ELSE [visit EXCEPT !.status = "assertion failed"]
    /\ UNCHANGED <<nodes, query, editVars>>

\* visit_children returns; the outermost return ends visit_tree
VisitChildrenReturn ==
    /\ Running
    /\ Top.fn = "visit_children" /\ Top.pc = "return"
    /\ visit' = [visit EXCEPT
           !.stack = Pop(@),
           !.status = IF Len(visit.stack) = 1 THEN "done" ELSE @]
    /\ UNCHANGED <<nodes, cursor, query, editVars>>

InitVisit ==
    /\ DocumentIdle
    /\ nodes \in {t \in Trees : t.named = NodesOf(t)}
    /\ cursor = NoCursor
    /\ visit \in {[NoVisit EXCEPT !.ndebug = b] : b \in BOOLEAN}
    /\ query = NoQuery

NextVisit ==
    \/ VisitTree
    \/ VisitChildrenEnter
    \/ VisitSiblingsLoop
    \/ VisitSiblingsAssert
    \/ VisitChildrenReturn

SpecVisit == InitVisit /\ [][NextVisit]_vars

\* =========================================================== QueryCursor
\* Largest number of matches of a running query.
MaxMatches == 2

\* The capture lists of the engine's matches: TSQueryCapture{node, index},
\* index being the id of the capture name in the query.
CaptureLists ==
    { << [node |-> 1, index |-> 0] >>,
      << [node |-> 1, index |-> 0], [node |-> 2, index |-> 1] >>,
      << [node |-> 1, index |-> 1], [node |-> 2, index |-> 0] >>,
      << [node |-> 3, index |-> 2] >> }

\* The matches the engine finds for a query, in its order; TSQueryMatch::id
\* counts from 0.
MatchLists ==
    UNION {{[i \in 1..n |-> [id |-> i - 1, pattern_index |-> 0, captures |-> cl[i]]] :
               cl \in [1..n -> CaptureLists]} : n \in 0..MaxMatches}

\* What ts_query_cursor_next_capture reports for these matches: the match and
\* the position of the capture in the captures of that match.
RECURSIVE CaptureStream(_)
CaptureStream(ms) ==
    IF ms = <<>> THEN <<>>
    ELSE [k \in 1..Len(ms[1].captures) |-> [match |-> ms[1], index |-> k - 1]]
         \o CaptureStream(Tail(ms))

\* Match::capture_with_index(index): the first capture whose index field is
\* index; an optional, held as a sequence of at most one element
capture_with_index(match, index) ==
    LET hits == {k \in 1..Len(match.captures) : match.captures[k].index = index}
    IN IF hits = {} THEN <<>>
       ELSE << match.captures[CHOOSE k \in hits : \A j \in hits : k <= j] >>

\* QueryCursor::next_match on the engine's pending matches
next_match(pending) ==
    IF pending /= <<>>
    THEN [ret |-> << Head(pending) >>, pending |-> Tail(pending)]
    ELSE [ret |-> <<>>, pending |-> pending]

\* QueryCursor::matches returning after the first match
matches_first_only(pending) ==
    [ret |-> next_match(pending).ret, pending |-> next_match(pending).pending]

\* QueryCursor::matches: while (match = next_match()) matches.push_back(*match)
RECURSIVE matches(_)
matches(pending) ==
    LET m == next_match(pending)
    IN IF m.ret = <<>> THEN [ret |-> <<>>, pending |-> m.pending]
       ELSE [ret |-> m.ret \o matches(m.pending).ret,
             pending |-> matches(m.pending).pending]

\* QueryCursor::next_capture on the engine's pending capture reports
next_capture(captures) ==
    IF captures /= <<>>
    THEN [ret |-> capture_with_index(Head(captures).match, Head(captures).index),
          captures |-> Tail(captures)]
    ELSE [ret |-> <<>>, captures |-> captures]

\* QueryCursor::exec(query): the engine starts running a query
Exec(ms) ==
    /\ query.op = "none"
    /\ query' = [pending |-> ms, captures |-> CaptureStream(ms), op |-> "exec",
                 ret |-> <<>>, taken |-> <<>>, all |-> ms]
    /\ UNCHANGED <<nodes, cursor, visit, editVars>>

NextMatch ==
    /\ query.op /= "none"
    /\ query' = [query EXCEPT !.op = "next_match",
                              !.ret = next_match(query.pending).ret,
                              !.pending = next_match(query.pending).pending,
                              !.taken = @ \o next_match(query.pending).ret]
    /\ UNCHANGED <<nodes, cursor, visit, editVars>>

Matches ==
    /\ query.op /= "none"
    /\ query' = [query EXCEPT !.op = "matches",
                              !.ret = matches(query.pending).ret,
                              !.pending = matches(query.pending).pending,
                              !.taken = @ \o matches(query.pending).ret]
    /\ UNCHANGED <<nodes, cursor, visit, editVars>>

NextCapture ==
    /\ query.op /= "none"
    /\ query' = [query EXCEPT !.op = "next_capture",
                              !.ret = next_capture(query.captures).ret,
                              !.captures = next_capture(query.captures).captures]
    /\ UNCHANGED <<nodes, cursor, visit, editVars>>

\* QueryCursor cursor(tree): nothing is running yet
InitQuery ==
    /\ DocumentIdle
    /\ nodes = NoNodes
    /\ cursor = NoCursor
    /\ visit = NoVisit
    /\ query = NoQuery

NextQuery ==
    \/ \E ms \in MatchLists : Exec(ms)
    \/ NextMatch
    \/ Matches
    \/ NextCapture

SpecQuery == InitQuery /\ [][NextQuery]_vars

\* ================================================================ claims
\* The batch properties the claims speak of, stated on the submitted batch.
ZeroSized(e) == e.range.start = e.range.end
Multiline(e) ==
    \/ e.range.start.point.row /= e.range.end.point.row
    \/ \E i \in 1..Len(e.replacement) : e.replacement[i] = "\n"
\* half-open byte ranges that share a byte, or an empty range strictly inside
\* another range, as Range::overlaps reports in either direction
Overlapping(a, b) == overlaps(a.range, b.range) \/ overlaps(b.range, a.range)
SomeZeroSized(es) == \E i \in 1..Len(es) : ZeroSized(es[i])
SomeMultiline(es) == \E i \in 1..Len(es) : Multiline(es[i])
SomeOverlap(es) == \E i, j \in 1..Len(es) : i /= j /\ Overlapping(es[i], es[j])
\* a valid batch: non-empty single-line edits over pairwise disjoint ranges
ValidBatch(es) ==
    /\ \A i \in 1..Len(es) :
         /\ es[i].range.start.byte < es[i].range.end.byte
         /\ ~Multiline(es[i])
    /\ \A i, j \in 1..Len(es) :
         i /= j => \/ es[i].range.end.byte <= es[j].range.start.byte
                   \/ es[j].range.end.byte <= es[i].range.start.byte

Rejected == outcome \in ValidationErrors
Called == calls > 0

\* --- C1 -----------------------------------------------------------------
\* C1: whenever a call of Tree::edit ends with a validation error, the
\* document's source after the call is the source before the call.
C1_SourceUnchangedOnRejection ==
    [][(calls' = calls + 1 /\ outcome' \in ValidationErrors) => source' = source]_vars

\* a rejected batch whose first edit in sorted order could have been spliced
C1_Witness ==
    /\ Rejected
    /\ Len(sorted) >= 2
    /\ ValidBatch(<<sorted[1]>>)

\* --- C2 -----------------------------------------------------------------
\* C2: whenever a call of Tree::edit ends with a validation error, the
\* document holds the same live tree handle as before the call, and the
\* engine was sent no edit notification.
C2_TreeUntouchedOnRejection ==
    [][(calls' = calls + 1 /\ outcome' \in ValidationErrors) =>
          /\ tree' = tree
          /\ tree' /= NullTree
          /\ tree' \in DOMAIN trees'
          /\ \A i \in 1..Len(engine') : engine'[i].op /= "ts_tree_edit"]_vars

\* --- C3 -----------------------------------------------------------------
\* C3: a valid batch submitted right after a rejected one is applied: the
\* call succeeds, the document holds a live tree parsed from the new source,
\* and source and applied edits are those edit_tree computes from the source
\* and the batch alone.
C3_ValidAfterRejectedSucceeds ==
    [][(/\ outcome \in ValidationErrors
        /\ calls' = calls + 1
        /\ edits' /= <<>>
        /\ ValidBatch(edits')) =>
          /\ outcome' = "ok"
          /\ tree' \in DOMAIN trees'
          /\ trees'[tree'].text = source'
          /\ \A es \in sort(edits') :
               /\ source' = edit_tree(es, source).doc_source
               /\ result' = edit_tree(es, source).applied_edits]_vars

C5_MultilineAlwaysSignalled ==
    (Called /\ SomeMultiline(edits)) => outcome = "MultilineEdit"

\* C5 amended: a batch with a multiline edit is always rejected with a
\* validation error, and the error is MultilineEdit when no edit of the batch
\* is zero-sized and no two edits of the batch overlap.
C5_MultilineRejected ==
    (Called /\ SomeMultiline(edits)) =>
        /\ Rejected
        /\ (~SomeZeroSized(edits) /\ ~SomeOverlap(edits)) => outcome = "MultilineEdit"

\* a single-row edit with a line break in its replacement, next to an
\* applicable edit
C5_Witness ==
    /\ outcome = "MultilineEdit"
    /\ Len(edits) >= 2
    /\ ~SomeZeroSized(edits) /\ ~SomeOverlap(edits)
    /\ \E i \in 1..Len(edits) :
         /\ edits[i].range.start.point.row = edits[i].range.end.point.row
         /\ Multiline(edits[i])
    /\ \E i \in 1..Len(edits) : ValidBatch(<<edits[i]>>)

\* --- C6 -----------------------------------------------------------------
\* C6 as claimed: a batch with two overlapping edits always ends in
\* OverlappingEdit.
C6_OverlapAlwaysSignalled ==
    (Called /\ SomeOverlap(edits)) => outcome = "OverlappingEdit"

\* C6 amended: a batch with two overlapping edits is always rejected with a
\* validation error, and the error is OverlappingEdit when no edit of the
\* batch is zero-sized or multiline.
C6_OverlapRejected ==
    (Called /\ SomeOverlap(edits)) =>
        /\ Rejected
        /\ (~SomeZeroSized(edits) /\ ~SomeMultiline(edits)) => outcome = "OverlappingEdit"

\* the same applicable edit submitted twice
C6_Witness ==
    /\ outcome = "OverlappingEdit"
    /\ \E i, j \in 1..Len(edits) :
         i /= j /\ edits[i] = edits[j] /\ ValidBatch(<<edits[i]>>)

\* --- C7 -----------------------------------------------------------------
\* The text obtained by replacing, in src, the original byte range of every
\* edit of the set by its replacement (last range first, so that no offset
\* moves before it is used).
RECURSIVE RefApply(_, _)
RefApply(src, es) ==
    IF es = {} THEN src
    ELSE LET e == CHOOSE x \in es :
                    \A y \in es : x.range.start.byte >= y.range.start.byte
         IN RefApply(SubSeq(src, 1, e.range.start.byte) \o e.replacement
                     \o SubSeq(src, e.range.end.byte + 1, Len(src)),
                     es \ {e})

BatchSet(es) == {es[i] : i \in 1..Len(es)}

\* C7: a call with a valid non-empty batch succeeds and leaves the source
\* equal to the reference text.
C7_FinalTextIsReference ==
    [][(calls' = calls + 1 /\ edits' /= <<>> /\ ValidBatch(edits')) =>
          /\ outcome' = "ok"
          /\ source' = RefApply(source, BatchSet(edits'))]_vars

\* --- C8 -----------------------------------------------------------------
\* C8: after a successful call with a valid batch, the final source over the
\* bytes of every applied edit's `after` range is that edit's replacement.
C8_AfterLocatesReplacement ==
    (ValidBatch(edits) /\ outcome = "ok") =>
        \A k \in 1..Len(result) :
            SubSeq(source, result[k].after.start.byte + 1, result[k].after.end.byte)
                = result[k].replacement

\* --- C9 / C10 -----------------------------------------------------------
\* len(replacement) - len(old text) of an applied edit, from its original range
Delta(ae) == Len(ae.replacement) - (ae.before.end.byte - ae.before.start.byte)

RECURSIVE SumDelta(_, _)
SumDelta(aes, idx) ==
    IF idx = {} THEN 0
    ELSE LET i == CHOOSE x \in idx : TRUE
         IN Delta(aes[i]) + SumDelta(aes, idx \ {i})

\* the applied edits that start before applied edit k
Earlier(aes, k) ==
    {i \in 1..Len(aes) : aes[i].before.start.byte < aes[k].before.start.byte}

EarlierOnRow(aes, k) ==
    {i \in Earlier(aes, k) :
        aes[i].before.start.point.row = aes[k].before.start.point.row}

DifferentRows(es) ==
    \A i, j \in 1..Len(es) :
        i /= j => es[i].range.start.point.row /= es[j].range.start.point.row

\* C9: for a valid batch whose edits lie on different rows, the bytes of every
\* applied edit's `after` range are those of its `before` range plus the byte
\* deltas of the edits that start earlier (the end also plus its own delta).
C9_BytesShiftedByEarlierDeltas ==
    (ValidBatch(edits) /\ DifferentRows(edits)) =>
        \A k \in 1..Len(result) :
            /\ result[k].after.start.byte
                 = result[k].before.start.byte + SumDelta(result, Earlier(result, k))
            /\ result[k].after.end.byte
                 = result[k].before.end.byte + SumDelta(result, Earlier(result, k))
                   + Delta(result[k])

\* C10: for a valid batch, the start column of every applied edit's `after`
\* range is that of its `before` range plus the deltas of the edits that start
\* earlier on the same row.
C10_ColumnShiftedBySameRowDeltas ==
    ValidBatch(edits) =>
        \A k \in 1..Len(result) :
            result[k].after.start.point.column
                = result[k].before.start.point.column
                  + SumDelta(result, EarlierOnRow(result, k))


\* --- C11 ----------------------------------------------------------------
\* C11: for a valid batch, an applied edit on a row that no earlier-starting
\* edit of the batch lies on has the start column of its `after` range equal
\* to that of its `before` range.
C11_NoColumnBleedAcrossRows ==
    ValidBatch(edits) =>
        \A k \in 1..Len(result) :
            EarlierOnRow(result, k) = {} =>
                result[k].after.start.point.column
                    = result[k].before.start.point.column

\* a later edit on a row of its own, after an edit that changed the length
C11_Witness ==
    /\ ValidBatch(edits)
    /\ outcome = "ok"
    /\ \E k \in 2..Len(result) :
         /\ EarlierOnRow(result, k) = {}
         /\ Delta(result[k - 1]) /= 0

\* --- C12 ----------------------------------------------------------------
\* C12: a call ends in one of the three validation errors or returns its
\* result; in particular a valid batch whose ranges lie inside the source
\* raises no other error.
C12_OnlyTwoOutcomes ==
    Called =>
        /\ outcome \in ValidationErrors \cup {"ok"}
        /\ ValidBatch(edits) => outcome = "ok"

\* --- C13 ----------------------------------------------------------------
\* every order in which the caller can list the edits of the batch es
Reorderings(es) == {[i \in 1..Len(es) |-> es[p[i]]] : p \in Perms(Len(es))}

\* C13: a call with a valid batch ends the same way and leaves the same source
\* as the call would for every other order of listing the same edits.
C13_FinalTextIndependentOfOrder ==
    [][(calls' = calls + 1 /\ ValidBatch(edits')) =>
          \A other \in Reorderings(edits') : \A es \in sort(other) :
              /\ edit_tree(es, source).outcome = outcome'
              /\ edit_tree(es, source).doc_source = source']_vars

\* a successful call whose edits were not listed in ascending order
C13_Witness ==
    /\ ValidBatch(edits)
    /\ outcome = "ok"
    /\ Len(edits) >= 2
    /\ edits /= sorted

\* --- C14 ----------------------------------------------------------------
\* C14: the applied edits a call with a valid batch returns hold exactly one
\* record for every submitted edit, in ascending order of before.start.byte,
\* however the caller listed the edits.
C14_OneRecordPerEditAscending ==
    (ValidBatch(edits) /\ outcome = "ok") =>
        /\ Len(result) = Len(edits)
        /\ \A i \in 1..Len(edits) :
             Cardinality({k \in 1..Len(result) :
                             /\ result[k].before.start.byte = edits[i].range.start.byte
                             /\ result[k].replacement = edits[i].replacement}) = 1
        /\ \A k \in 1..(Len(result) - 1) :
             result[k].before.start.byte < result[k + 1].before.start.byte

\* three edits listed in descending order and applied
C14_Witness ==
    /\ ValidBatch(edits)
    /\ outcome = "ok"
    /\ Len(result) = 3
    /\ \A i \in 1..2 : edits[i].range.start.byte > edits[i + 1].range.start.byte

\* --- C15 ----------------------------------------------------------------
\* C15: the `before` range of every applied edit of a successful call is,
\* field for field, the range the caller supplied for that edit.
C15_BeforeIsSuppliedRange ==
    outcome = "ok" =>
        /\ Len(result) = Len(sorted)
        /\ \A k \in 1..Len(result) :
             /\ result[k].before = sorted[k].range
             /\ \E i \in 1..Len(edits) :
                  /\ edits[i].range = result[k].before
                  /\ edits[i].replacement = result[k].replacement

\* an applied edit that was moved, in bytes and in columns, by an earlier one
C15_Witness ==
    /\ outcome = "ok"
    /\ \E k \in 2..Len(result) :
         /\ result[k].after.start.byte /= result[k].before.start.byte
         /\ result[k].after.start.point.column
              /= result[k].before.start.point.column

\* --- C16 ----------------------------------------------------------------
\* C16: the old_source of every applied edit of a valid batch is the text the
\* source held, before the call, over the bytes of the record's `before` range.
C16_OldSourceIsReplacedText ==
    [][(calls' = calls + 1 /\ ValidBatch(edits')) =>
          \A k \in 1..Len(result') :
              result'[k].old_source
                  = SubSeq(source, result'[k].before.start.byte + 1,
                           result'[k].before.end.byte)]_vars

\* --- C17 ----------------------------------------------------------------
\* C17: Range::overlaps is symmetric on the ranges of a submitted batch, empty
\* ranges included: a.overlaps(b) = b.overlaps(a).
C17_OverlapsSymmetric ==
    \A i, j \in 1..Len(edits) :
        overlaps(edits[i].range, edits[j].range)
            = overlaps(edits[j].range, edits[i].range)

\* --- C18 ----------------------------------------------------------------
\* two non-empty single-line edits where one range ends at the byte the other
\* starts at
Touching(a, b) ==
    /\ a.range.start.byte < a.range.end.byte
    /\ b.range.start.byte < b.range.end.byte
    /\ a.range.start.point.row = a.range.end.point.row
    /\ b.range.start.point.row = b.range.end.point.row
    /\ a.range.end.byte = b.range.start.byte

\* C18: touching ranges do not overlap in either direction, and a batch of two
\* single-line edits over touching ranges passes validation and is applied.
C18_TouchingRangesApplied ==
    [][(/\ calls' = calls + 1
        /\ Len(edits') = 2
        /\ \A i \in 1..2 : ~Multiline(edits'[i])
        /\ Touching(edits'[1], edits'[2]) \/ Touching(edits'[2], edits'[1]))
       => /\ ~overlaps(edits'[1].range, edits'[2].range)
          /\ ~overlaps(edits'[2].range, edits'[1].range)
          /\ outcome' = "ok"
          /\ Len(result') = 2
          /\ source' = RefApply(source, BatchSet(edits'))]_vars

\* a batch of two touching edits, listed in either order, was applied
C18_Witness ==
    /\ Len(edits) = 2
    /\ Touching(edits[2], edits[1])
    /\ outcome = "ok"
    /\ Len(result) = 2
    /\ result[1].after.end.byte /= result[1].before.end.byte

\* --- C19 ----------------------------------------------------------------
\* the positions of the engine calls of the last Tree::edit, by kind
EngineCalls(op) == {i \in 1..Len(engine) : engine[i].op = op}

\* C19: a call whose batch fails validation sends the engine no notification
\* and no reparse; a call whose batch passes validation notifies the engine
\* once per edit, in ascending order of start byte, and then reparses exactly
\* once.
C19_NotifyThenReparseOnce ==
    Called =>
        IF outcome \in ValidationErrors
        THEN /\ EngineCalls("ts_tree_edit") = {}
             /\ EngineCalls("ts_parser_parse_string") = {}
        ELSE /\ EngineCalls("ts_tree_edit") = 1..Len(edits)
             /\ \A k \in 1..Len(edits) :
                  /\ engine[k].input.old_end_byte - engine[k].input.start_byte
                       = sorted[k].range.end.byte - sorted[k].range.start.byte
                  /\ engine[k].input.new_end_byte - engine[k].input.start_byte
                       = Len(sorted[k].replacement)
             /\ \A k \in 1..(Len(edits) - 1) :
                  sorted[k].range.start.byte < sorted[k + 1].range.start.byte
             /\ EngineCalls("ts_parser_parse_string") = {Len(edits) + 1}

\* --- C20 ----------------------------------------------------------------
\* C20: a successful call replaces the tree and the source of the document
\* together: the document then holds a new tree, which is the one the engine
\* returned from parsing exactly the document's new source; a call that does
\* not succeed leaves the source as it was.
C20_BufferAndTreeInStep ==
    [][calls' = calls + 1 =>
          /\ outcome' = "ok" =>
               /\ tree' /= NullTree
               /\ tree' /= tree
               /\ tree' \in DOMAIN trees'
               /\ trees'[tree'].text = source'
               /\ \E i \in 1..Len(engine') :
                    /\ engine'[i].op = "ts_parser_parse_string"
                    /\ engine'[i].text = source'
                    /\ engine'[i].new = tree'
          /\ outcome' /= "ok" => source' = source]_vars

\* the second of two successful calls on one document
C20_Witness ==
    /\ calls = 2
    /\ outcome = "ok"
    /\ result /= <<>>
    /\ source \notin InitSources
    /\ \E i \in 1..Len(engine) :
         /\ engine[i].op = "ts_parser_parse_string"
         /\ engine[i].tree = 2

\* --- C21 ----------------------------------------------------------------
\* how often fn was called on node x
TimesVisited(x) ==
    Cardinality({i \in 1..Len(visit.visited) : visit.visited[i] = x})
Ended == visit.status \in {"done", "assertion failed"}

\* C21: visit_tree calls fn on no node twice and, when it has ended, has
\* called it once on every node of the tree.
C21_EveryNodeVisitedOnce ==
    /\ \A x \in NodesOf(nodes) : TimesVisited(x) <= 1
    /\ Ended => \A x \in NodesOf(nodes) : TimesVisited(x) = 1

\* --- C22 ----------------------------------------------------------------
NamedChildren(x) == {c \in Children(x) : is_named(c)}
LaterNamedSiblings(x) == {c \in LaterSiblings(x) : is_named(c)}

C23_MatchesReturnsTheRest ==
    [][/\ query'.op = "matches" =>
            /\ query.taken \o query'.ret = query.all
            /\ query'.pending = <<>>
       /\ (query'.op /= "exec" /\ (query.op = "matches" \/ query.pending = <<>>)) =>
            /\ query'.pending = <<>>
            /\ query'.op \in {"matches", "next_match"} => query'.ret = <<>>]_vars

\* matches returned the second of two matches after next_match took the first
C23_Witness ==
    /\ query.op = "matches"
    /\ Len(query.all) = 2
    /\ query.taken = query.all
    /\ Len(query.ret) = 1
    /\ query.ret[1] = query.all[2]

\* --- C24 ----------------------------------------------------------------
\* the sum of len(replacement) - len(old text) over the first k edits of es
RECURSIVE SumFirstDeltas(_, _)
SumFirstDeltas(es, k) ==
    IF k = 0 THEN 0
    ELSE SumFirstDeltas(es, k - 1) + Len(es[k].replacement)
         - (es[k].range.end.byte - es[k].range.start.byte)

\* C24: while a valid batch is applied in sorted order, cumulative_byte_change
\* after the first k edits is the sum of the byte deltas of those k edits.
C24_CumulativeByteChangeIsSum ==
    [][(calls' = calls + 1 /\ ValidBatch(edits')) =>
          \A k \in 1..Len(edit_tree(sorted', source).adjustments) :
              edit_tree(sorted', source).adjustments[k].cumulative_byte_change
                  = SumFirstDeltas(sorted', k)]_vars

\* --- C25 ----------------------------------------------------------------
\* C25: the batch std::sort is applied to holds no zero-sized and no
\* overlapping edits and no two edits that start at the same byte.
C25_SortSeesNoTies ==
    Called =>
        /\ ~SomeZeroSized(edits)
        /\ ~SomeOverlap(edits)
        /\ \A i, j \in 1..Len(edits) :
             i /= j => edits[i].range.start.byte /= edits[j].range.start.byte

\* --- C26 ----------------------------------------------------------------
\* C26: every notification of a call agrees with the splice made for it: the
\* bytes from start_byte to old_end_byte are the bytes the splice removed,
\* new_end_byte is start_byte plus the length of the replacement, and the
\* three points lie on one row, their columns as far apart as the bytes.
C26_NotificationMatchesSplice ==
    \A k \in EngineCalls("ts_tree_edit") :
        LET n == engine[k].input
        IN /\ k <= Len(result) =>
                Len(result[k].old_source) = n.old_end_byte - n.start_byte
           /\ n.new_end_byte = n.start_byte + Len(sorted[k].replacement)
           /\ n.start_point.row = n.old_end_point.row
           /\ n.start_point.row = n.new_end_point.row
           /\ n.old_end_point.column - n.start_point.column
                = n.old_end_byte - n.start_byte
           /\ n.new_end_point.column - n.start_point.column
                = n.new_end_byte - n.start_byte

\* --- C27 ----------------------------------------------------------------
\* C27: the `after` range of every applied edit of a successful call starts
\* where the adjusted edit starts (the start the engine was notified of),
\* lies on the row of the `before` range and spans len(replacement) bytes and
\* len(replacement) columns.
C27_AfterSpansReplacement ==
    outcome = "ok" =>
        \A k \in 1..Len(result) :
            LET ae == result[k]
            IN /\ ae.after.start.byte = engine[k].input.start_byte
               /\ ae.after.start.point = engine[k].input.start_point
               /\ ae.after.start.point.row = ae.before.start.point.row
               /\ ae.after.end.point.row = ae.before.start.point.row
               /\ ae.after.end.byte = ae.after.start.byte + Len(ae.replacement)
               /\ ae.after.end.point.column
                    = ae.after.start.point.column + Len(ae.replacement)

\* an applied edit that was moved by an earlier one and changes the length
C27_Witness ==
    /\ outcome = "ok"
    /\ \E k \in 2..Len(result) :
         /\ result[k].after.start.byte /= result[k].before.start.byte
         /\ Delta(result[k]) /= 0
         /\ result[k].after.end.byte /= result[k].before.end.byte

\* --- C28 ----------------------------------------------------------------
\* C28: during visit_tree the assertion of visit_siblings never fails, and
\* every call of visit_children returns with the cursor on the node it was on
\* when the call started.
C28_AssertHoldsCursorRestored ==
    /\ visit.status /= "assertion failed"
    /\ (Running /\ Top.fn = "visit_children" /\ Top.pc = "return") =>
           cursor.at = Top.entry

\* --- C29 ----------------------------------------------------------------
\* C29: next_capture returns nullopt only when the engine reports no further
\* capture; when the engine reports a match and a position in the captures of
\* that match, next_capture returns the capture at that position.
C29_NextCaptureReturnsReported ==
    [][query'.op = "next_capture" =>
          IF query.captures = <<>>
          THEN query'.ret = <<>>
          ELSE query'.ret
                 = << Head(query.captures).match.captures[
                          Head(query.captures).index + 1] >>]_vars

\* --- C30 ----------------------------------------------------------------
\* C30: a call that rejects its batch with a validation error would reject
\* every other order of listing the same edits with the same kind of error.
C30_SameErrorForEveryOrder ==
    [][(calls' = calls + 1 /\ outcome' \in ValidationErrors) =>
          \A other \in Reorderings(edits') : \A es \in sort(other) :
              edit_tree(es, source).outcome = outcome']_vars
====
